---- MODULE Spec2Model ----
(***************************************************************************)
(* Model of the type/property registry of world_simulator                  *)
(* (src/src/classes.rs): InMemoryRegistry, Property, ClassMeta::new, and   *)
(* the setup_class / create_property driver that registers a hierarchy;    *)
(* and of its tokenizer (src/src/tokenizer/tokenize.rs) with the error     *)
(* sink it reports to (src/src/tokenizer/error_reporter.rs).               *)
(***************************************************************************)
EXTENDS Integers, Sequences, FiniteSets, TLC

\* ---------------------------------------------------------------- bounds
\* at most MaxProps property ids are minted
MaxProps == 4

\* names the callers draw from (the 'code string slices); a registry compares
\* names only for equality, so setup_class is given the class names in this
\* order, and one class is set up per name
ClassNameSeq == <<"A", "B", "C", "D">>
MaxClasses == Len(ClassNameSeq)
PropNames == {"n", "m"}

\* Type (classes.rs 38-48); Invalid is the default
ValidTypes == {"Int"}
Invalid == "Invalid"

VARIABLES
    classes,           \* ClassID -> (ClassMeta, name)
    properties,        \* PropertyID -> (Property, name)
    class_names,       \* name -> ClassID
    property_names,    \* name -> (ClassID -> PropertyID)
    next_class_id,
    next_property_id,
    pc,                \* position of setup_class: "idle", "props", "reserved"
    class_id,          \* setup_class: the id of the class being set up
    props_map,         \* setup_class: name -> Property declared so far
    prop_id,           \* create_property: the reserved id awaiting add_property
    prop_name,         \* create_property: its name
    result,            \* the last registry call and what it returned
    aborted,           \* a panic ended the process
    input,             \* tokenize: the source, a sequence of characters
    chars,             \* tokenize: index of the next character chars.next() yields
    tokens,            \* tokenize: the token vector built so far
    errors,            \* ErrorReporter.errors
    current_line,
    current_column,
    mode,              \* tokenize: the loop the scan is in, "idle" before the call
    depth,             \* block comment: nesting depth
    comment_start_line,
    comment_start_column,
    string_start_line,
    string_start_column,
    string_literal,    \* string literal: the decoded characters so far
    start,             \* number, identifier: index of the first character
    first_pass         \* round trip: <<>>, or <<the tokens of the first call>>

reg_vars == <<classes, properties, class_names, property_names,
              next_class_id, next_property_id>>
drv_vars == <<pc, class_id, props_map, prop_id, prop_name>>
tok_vars == <<input, chars, tokens, errors, current_line, current_column, mode,
              depth, comment_start_line, comment_start_column,
              string_start_line, string_start_column, string_literal, start,
              first_pass>>
vars == <<classes, properties, class_names, property_names,
          next_class_id, next_property_id,
          pc, class_id, props_map, prop_id, prop_name, result, aborted,
          input, chars, tokens, errors, current_line, current_column, mode,
          depth, comment_start_line, comment_start_column,
          string_start_line, string_start_column, string_literal, start,
          first_pass>>

\* ------------------------------------------------------- HashMap helpers
EmptyMap == [k \in {} |-> 0]

MapInsert(m, k, v) == [x \in DOMAIN m \cup {k} |-> IF x = k THEN v ELSE m[x]]

MapRemove(m, k) == [x \in DOMAIN m \ {k} |-> m[x]]

\* m.entry(k).or_default().extend(v)
EntryExtend(m, k, v) ==
    [x \in DOMAIN m \cup {k} |->
        IF x = k THEN (IF k \in DOMAIN m THEN m[k] ELSE {}) \cup v ELSE m[x]]

\* every order in which a HashSet may be iterated
Orders(S) ==
    {o \in [1..Cardinality(S) -> S] : \A i, j \in 1..Cardinality(S) : o[i] = o[j] => i = j}

\* ------------------------------------------------------------- Property
DefaultProperty == [id |-> 0, inner_type |-> Invalid, source |-> 0]

is_valid(t) == t # Invalid

\* -------------------------------------------------------------- lookups
get_class_id(name) ==
    IF name \in DOMAIN class_names THEN class_names[name] ELSE 0

get_property_id(name, class) ==
    IF name \in DOMAIN property_names /\ class \in DOMAIN property_names[name]
    THEN property_names[name][class] ELSE 0

has_class(id) == id \in DOMAIN classes

get_class(id) == classes[id].meta

get_property(id) == properties[id].prop

\* ------------------------------------------------------- ClassMeta::new
\* a merge that forgets the parent's ancestors
ExtendAncestorsSkipped(ans, p) == ans

\* a merge that counts the class under construction among its ancestors
ExtendAncestorsWithSelf(ans, p) ==
    [ans EXCEPT !.ancestors = @ \cup get_class(p).ancestors \cup {class_id}]

\* ans.ancestors.extend(p.ancestors.clone())
ExtendAncestors(ans, p) ==
    [ans EXCEPT !.ancestors = @ \cup get_class(p).ancestors]

\* a merge that does not carry over what the parent has shadowed
ShadowedEntrySkipped(ans, k, v) == ans

\* one iteration of the loop over p.shadowed_properties
ShadowedEntry(ans, k, v) ==
    [ans EXCEPT !.shadowed_properties = EntryExtend(@, k, v)]

\* one iteration of the loop over p.clashing_properties
ClashingEntry(ans, id, k, v) ==
    IF k \in DOMAIN ans.accessble_properties
    THEN IF ans.accessble_properties[k].id = id
         THEN [ans EXCEPT !.shadowed_properties = EntryExtend(@, k, v)]
         ELSE LET other == ans.accessble_properties[k] IN
              [ans EXCEPT !.accessble_properties = MapRemove(@, k),
                          !.clashing_properties = EntryExtend(@, k, v \cup {other})]
    ELSE [ans EXCEPT !.clashing_properties = EntryExtend(@, k, v)]

\* one iteration of the loop over p.accessble_properties
AccessibleEntry(ans, id, k, v) ==
    IF k \in DOMAIN ans.accessble_properties
    THEN LET other_id == ans.accessble_properties[k].id IN
         IF other_id = id
         THEN [ans EXCEPT !.shadowed_properties = EntryExtend(@, k, {v})]
         ELSE IF v.source = other_id
         THEN ans
         ELSE LET other == ans.accessble_properties[k] IN
              [ans EXCEPT !.accessble_properties = MapRemove(@, k),
                          !.clashing_properties = EntryExtend(@, k, {v, other})]
    ELSE [ans EXCEPT !.accessble_properties = MapInsert(@, k, v)]

\* The three inner loops visit the keys of one map; an iteration reads and
\* writes only the entries of its own key, so the visiting order of the keys
\* does not change the outcome and the loops are folded in a fixed order.
RECURSIVE ShadowedLoop(_, _, _)
ShadowedLoop(ans, m, keys) ==
    IF keys = {} THEN ans
    ELSE LET k == CHOOSE x \in keys : TRUE IN
         ShadowedLoop(ShadowedEntry(ans, k, m[k]), m, keys \ {k})

RECURSIVE ClashingLoop(_, _, _, _)
ClashingLoop(ans, id, m, keys) ==
    IF keys = {} THEN ans
    ELSE LET k == CHOOSE x \in keys : TRUE IN
         ClashingLoop(ClashingEntry(ans, id, k, m[k]), id, m, keys \ {k})

RECURSIVE AccessibleLoop(_, _, _, _)
AccessibleLoop(ans, id, m, keys) ==
    IF keys = {} THEN ans
    ELSE LET k == CHOOSE x \in keys : TRUE IN
         AccessibleLoop(AccessibleEntry(ans, id, k, m[k]), id, m, keys \ {k})

\* the body of `for p in &ans.parents`
MergeParent(ans, id, p) ==
    LET pm == get_class(p)
        a1 == ExtendAncestors(ans, p)
        a2 == ShadowedLoop(a1, pm.shadowed_properties, DOMAIN pm.shadowed_properties)
        a3 == ClashingLoop(a2, id, pm.clashing_properties, DOMAIN pm.clashing_properties)
    IN  AccessibleLoop(a3, id, pm.accessble_properties, DOMAIN pm.accessble_properties)

RECURSIVE MergeParents(_, _, _, _)
MergeParents(ans, id, order, i) ==
    IF i > Len(order) THEN ans
    ELSE MergeParents(MergeParent(ans, id, order[i]), id, order, i + 1)

\* a seed whose ancestors start empty instead of as a copy of the parents
InitialMetaNoParents(parents, new_props) ==
    [parents |-> parents,
     ancestors |-> {},
     accessble_properties |-> new_props,
     clashing_properties |-> EmptyMap,
     shadowed_properties |-> EmptyMap]

\* let mut ans = ClassMeta { ancestors: parents.clone(), parents, ... }
InitialMeta(parents, new_props) ==
    [parents |-> parents,
     ancestors |-> parents,
     accessble_properties |-> new_props,
     clashing_properties |-> EmptyMap,
     shadowed_properties |-> EmptyMap]

\* ClassMeta::new(reg, id, parents, new_props), the parents visited in `order`
ClassMetaNew(id, parents, new_props, order) ==
    MergeParents(InitialMeta(parents, new_props), id, order, 1)

\* reg.get_class(*p).unwrap() panics on a parent that has no ClassMeta
NewPanics(parents) == \E p \in parents : ~has_class(p)

\* ------------------------------------------------------------------ Init
\* InMemoryRegistry::new(), the driver at rest
RegistryNew ==
    /\ classes = EmptyMap
    /\ properties = EmptyMap
    /\ class_names = EmptyMap
    /\ property_names = EmptyMap
    /\ next_class_id = 1
    /\ next_property_id = 1
    /\ pc = "idle"
    /\ class_id = 0
    /\ props_map = EmptyMap
    /\ prop_id = 0
    /\ prop_name = ""
    /\ result = [op |-> "new", ret |-> "Ok", id |-> 0]
    /\ aborted = FALSE

\* the locals of tokenize outside the loops that own them
NoLocals ==
    /\ depth = 0
    /\ comment_start_line = 0
    /\ comment_start_column = 0
    /\ string_start_line = 0
    /\ string_start_column = 0
    /\ string_literal = <<>>
    /\ start = 0

\* tokenize has not been called
TokenizerIdle ==
    /\ input = <<>>
    /\ chars = 1
    /\ tokens = <<>>
    /\ errors = <<>>
    /\ current_line = 1
    /\ current_column = 1
    /\ mode = "idle"
    /\ NoLocals
    /\ first_pass = <<>>

Init == RegistryNew /\ TokenizerIdle

\* --------------------------------------------- InMemoryRegistry (trait impl)
\* what add_class_id(name) returns
AddClassIdRet(name) ==
    IF get_class_id(name) # 0 THEN get_class_id(name) ELSE next_class_id

\* add_class_id without the lookup of an id already given to the name
add_class_id_always_mints(name) ==
    /\ result' = [op |-> "add_class_id", ret |-> "Ok", id |-> next_class_id]
    /\ next_class_id' = next_class_id + 1
    /\ class_names' = MapInsert(class_names, name, next_class_id)
    /\ UNCHANGED <<classes, properties, property_names, next_property_id>>

add_class_id(name) ==
    /\ result' = [op |-> "add_class_id", ret |-> "Ok", id |-> AddClassIdRet(name)]
    /\ IF get_class_id(name) # 0
       THEN UNCHANGED <<class_names, next_class_id>>
       ELSE /\ next_class_id' = next_class_id + 1
            /\ class_names' = MapInsert(class_names, name, next_class_id)
    /\ UNCHANGED <<classes, properties, property_names, next_property_id>>

\* property_names.entry(name).or_default().insert(class, id)
PropertyNamesInsert(name, class, id) ==
    MapInsert(property_names, name,
              MapInsert(IF name \in DOMAIN property_names
                        THEN property_names[name] ELSE EmptyMap, class, id))

\* add_property_id without the panic on a pair that is already interned
add_property_id_second_id(name, class) ==
    LET id == next_property_id IN
    /\ next_property_id' = next_property_id + 1
    /\ property_names' = PropertyNamesInsert(name, class, id)
    /\ properties' = MapInsert(properties, id, [prop |-> DefaultProperty, name |-> name])
    /\ result' = [op |-> "add_property_id", ret |-> "Ok", id |-> id]
    /\ UNCHANGED <<classes, class_names, next_class_id>>

add_property_id(name, class) ==
    LET id == next_property_id IN
    /\ next_property_id' = next_property_id + 1
    /\ property_names' = PropertyNamesInsert(name, class, id)
    /\ IF get_property_id(name, class) # 0
       THEN \* panic!("duplicate properties on class!!!")
            /\ result' = [op |-> "add_property_id", ret |-> "panic", id |-> 0]
            /\ UNCHANGED properties
       ELSE IF id \in DOMAIN properties
       THEN \* panic!("duplicate property ID added")
            /\ result' = [op |-> "add_property_id", ret |-> "panic", id |-> 0]
            /\ UNCHANGED properties
       ELSE /\ properties' = MapInsert(properties, id,
                                       [prop |-> DefaultProperty, name |-> name])
            /\ result' = [op |-> "add_property_id", ret |-> "Ok", id |-> id]
    /\ UNCHANGED <<classes, class_names, next_class_id>>

\* the name add_class recovers for id by reverse lookup, "" when there is none
ReverseName(id) ==
    IF \E nm \in DOMAIN class_names : class_names[nm] = id
    THEN CHOOSE nm \in DOMAIN class_names : class_names[nm] = id
    ELSE ""

add_class_replace(id, value) ==
    /\ IF ReverseName(id) = ""
       THEN /\ result' = [op |-> "add_class", ret |-> "DuplicateDef", id |-> 0]
            /\ UNCHANGED classes
       ELSE /\ classes' = MapInsert(classes, id, [meta |-> value, name |-> ReverseName(id)])
            /\ result' = [op |-> "add_class", ret |-> "Ok", id |-> 0]
    /\ UNCHANGED <<properties, class_names, property_names,
                   next_class_id, next_property_id>>

add_class(id, value) ==
    /\ IF id \in DOMAIN classes
       THEN /\ result' = [op |-> "add_class", ret |-> "DuplicateDef", id |-> 0]
            /\ UNCHANGED classes
       ELSE IF ReverseName(id) = ""
       THEN \* .ok_or(DuplicateDef)?
            /\ result' = [op |-> "add_class", ret |-> "DuplicateDef", id |-> 0]
            /\ UNCHANGED classes
       ELSE /\ classes' = MapInsert(classes, id,
                                    [meta |-> value, name |-> ReverseName(id)])
            /\ result' = [op |-> "add_class", ret |-> "Ok", id |-> 0]
    /\ UNCHANGED <<properties, class_names, property_names,
                   next_class_id, next_property_id>>

\* an add_property that overwrites the slot without the is_valid test
add_property_overwrite(id, value) ==
    /\ IF id \in DOMAIN properties
       THEN /\ properties' = [properties EXCEPT ![id].prop = value]
            /\ result' = [op |-> "add_property", ret |-> "Ok", id |-> 0]
       ELSE /\ result' = [op |-> "add_property", ret |-> "panic", id |-> 0]
            /\ UNCHANGED properties
    /\ UNCHANGED <<classes, class_names, property_names,
                   next_class_id, next_property_id>>

add_property(id, value) ==
    /\ IF id \in DOMAIN properties
       THEN IF ~is_valid(properties[id].prop.inner_type)
            THEN /\ properties' = [properties EXCEPT ![id].prop = value]
                 /\ result' = [op |-> "add_property", ret |-> "Ok", id |-> 0]
            ELSE /\ result' = [op |-> "add_property", ret |-> "DuplicateDef", id |-> 0]
                 /\ UNCHANGED properties
       ELSE \* panic!("tried adding a non existed property id")
            /\ result' = [op |-> "add_property", ret |-> "panic", id |-> 0]
            /\ UNCHANGED properties
    /\ UNCHANGED <<classes, class_names, property_names,
                   next_class_id, next_property_id>>

\* ------------------------------------- setup_class / create_property (driver)
\* create_property builds Property { id: prop_id, inner_type, source: class_id }
NewProperty(pid, type, cid) == [id |-> pid, inner_type |-> type, source |-> cid]

\* let class_id = reg.add_class_id(class_name);
SetupClassIntern(name) ==
    /\ ~aborted /\ pc = "idle"
    /\ UNCHANGED tok_vars
    /\ next_class_id <= MaxClasses
    /\ add_class_id(name)
    /\ pc' = "props"
    /\ class_id' = AddClassIdRet(name)
    /\ UNCHANGED <<props_map, prop_id, prop_name, aborted>>

\* create_property: let prop_id = reg.add_property_id(prop_name, class_id);
CreatePropertyReserve(name) ==
    /\ ~aborted /\ pc = "props"
    /\ UNCHANGED tok_vars
    /\ next_property_id <= MaxProps
    /\ add_property_id(name, class_id)
    /\ aborted' = (result'.ret = "panic")
    /\ IF result'.ret = "panic"
       THEN UNCHANGED drv_vars
       ELSE /\ pc' = "reserved"
            /\ prop_id' = result'.id
            /\ prop_name' = name
            /\ UNCHANGED <<class_id, props_map>>

\* create_property: reg.add_property(prop_id, property).unwrap();
\* setup_class: props_map.insert(prop_name, property);
CreatePropertyDefine(type) ==
    LET property == NewProperty(prop_id, type, class_id) IN
    /\ ~aborted /\ pc = "reserved"
    /\ UNCHANGED tok_vars
    /\ add_property(prop_id, property)
    /\ aborted' = (result'.ret # "Ok")
    /\ IF result'.ret # "Ok"
       THEN UNCHANGED drv_vars
       ELSE /\ pc' = "props"
            /\ props_map' = MapInsert(props_map, prop_name, property)
            /\ prop_id' = 0
            /\ prop_name' = ""
            /\ UNCHANGED class_id

\* setup_class: let class_meta = ClassMeta::new(reg, class_id, parents, props_map);
\*              reg.add_class(class_id, class_meta).unwrap();
SetupClassDefine(parents, order) ==
    /\ ~aborted /\ pc = "props"
    /\ UNCHANGED tok_vars
    /\ IF NewPanics(parents)
       THEN /\ result' = [op |-> "ClassMeta::new", ret |-> "panic", id |-> class_id]
            /\ aborted' = TRUE
            /\ UNCHANGED <<reg_vars, drv_vars>>
       ELSE /\ add_class(class_id, ClassMetaNew(class_id, parents, props_map, order))
            /\ aborted' = (result'.ret # "Ok")
            /\ IF result'.ret # "Ok"
               THEN UNCHANGED drv_vars
               ELSE /\ pc' = "idle"
                    /\ class_id' = 0
                    /\ props_map' = EmptyMap
                    /\ UNCHANGED <<prop_id, prop_name>>

\* ------------------------------------------ direct calls on the registry
\* the Property values handed to a direct add_property(id, _)
PropertyValues(id) ==
    {NewProperty(id, t, 0) : t \in ValidTypes \cup {Invalid}}

\* reg.add_property(id, value) called outside create_property
CallAddProperty(id, value) ==
    /\ ~aborted
    /\ UNCHANGED tok_vars
    /\ add_property(id, value)
    /\ aborted' = (result'.ret = "panic")
    /\ UNCHANGED drv_vars

\* the name of the next class handed to setup_class
FreshNames ==
    IF next_class_id <= Len(ClassNameSeq) THEN {ClassNameSeq[next_class_id]} ELSE {}

\* the parent sets handed to setup_class: any set of registered classes, and
\* one set holding a class that has no ClassMeta (the class itself)
ParentSets == (SUBSET (DOMAIN classes)) \cup {{class_id}}

Next ==
    \/ \E name \in FreshNames : SetupClassIntern(name)
    \/ \E name \in PropNames : CreatePropertyReserve(name)
    \/ \E type \in ValidTypes : CreatePropertyDefine(type)
    \/ \E parents \in ParentSets : \E order \in Orders(parents) :
          SetupClassDefine(parents, order)
    \/ \E id \in 1..MaxProps : \E value \in PropertyValues(id) : CallAddProperty(id, value)

Spec == Init /\ [][Next]_vars

\* ================================================================ claims
Acc(c) == get_class(c).accessble_properties
Clash(c) == get_class(c).clashing_properties
Shadow(c) == get_class(c).shadowed_properties
Parents(c) == get_class(c).parents
Ancestors(c) == get_class(c).ancestors

\* class c declared name n through create_property, and the Property it declared
Declares(c, n) == get_property_id(n, c) # 0
OwnDef(c, n) == get_property(get_property_id(n, c))

\* C1: in every registered ClassMeta no property name is a key of both
\* accessble_properties and clashing_properties.
C1_AccessibleClashingDisjoint ==
    \A c \in DOMAIN classes : DOMAIN Acc(c) \cap DOMAIN Clash(c) = {}

\* C2: for the class being set up, every order in which ClassMeta::new may
\* visit a set of registered parents yields the same ClassMeta.
C2_OrderIndependent ==
    (pc = "props" /\ ~aborted) =>
        \A parents \in SUBSET (DOMAIN classes) :
            \A o1, o2 \in Orders(parents) :
                ClassMetaNew(class_id, parents, props_map, o1)
                    = ClassMetaNew(class_id, parents, props_map, o2)

\* C3: when class c declares n and a parent of c has n accessible, c's
\* accessible n is c's own definition, the parent's definition is in c's
\* shadowed set of n, and n is not a key of c's clashing_properties.
C3_OwnDeclarationShadows ==
    \A c \in DOMAIN classes : \A p \in Parents(c) : \A n \in PropNames :
        (Declares(c, n) /\ n \in DOMAIN Acc(p)) =>
            /\ n \in DOMAIN Acc(c)
            /\ Acc(c)[n] = OwnDef(c, n)
            /\ Acc(c)[n].source = c
            /\ n \in DOMAIN Shadow(c)
            /\ Acc(p)[n] \in Shadow(c)[n]
            /\ n \notin DOMAIN Clash(c)

\* the parents of d in which n is accessible / clashing
AccCarriers(d, n) == {p \in Parents(d) : n \in DOMAIN Acc(p)}
ClashCarriers(d, n) == {p \in Parents(d) : n \in DOMAIN Clash(p)}

\* C4: diamond: when two or more parents of d carry the same accessible
\* Property for n (no parent carries another definition or a clash of n) and
\* d does not declare n, d's accessible n is that Property and n is not a key
\* of d's clashing_properties.
C4_DiamondUnifies ==
    \A d \in DOMAIN classes : \A n \in PropNames :
        ( /\ ~Declares(d, n)
          /\ Cardinality(AccCarriers(d, n)) >= 2
          /\ ClashCarriers(d, n) = {}
          /\ \A p, q \in AccCarriers(d, n) : Acc(p)[n] = Acc(q)[n] ) =>
            /\ n \in DOMAIN Acc(d)
            /\ \A p \in AccCarriers(d, n) : Acc(d)[n] = Acc(p)[n]
            /\ n \notin DOMAIN Clash(d)

\* C5: clash from independent roots: when exactly two parents of z carry n,
\* both as accessible definitions whose sources differ, and z does not
\* declare n, n is not accessible in z and z's clashing set of n is exactly
\* those two Properties.
C5_IndependentRootsClash ==
    \A z \in DOMAIN classes : \A n \in PropNames :
        ( /\ ~Declares(z, n)
          /\ Cardinality(AccCarriers(z, n)) = 2
          /\ ClashCarriers(z, n) = {}
          /\ \A p, q \in AccCarriers(z, n) :
                p # q => Acc(p)[n].source # Acc(q)[n].source ) =>
            /\ n \notin DOMAIN Acc(z)
            /\ n \in DOMAIN Clash(z)
            /\ Clash(z)[n] = {Acc(p)[n] : p \in AccCarriers(z, n)}

\* C6: own declaration resolves an inherited clash: when the only parent p of
\* w has n clashing (and nothing shadowed under n) and w declares n, w's
\* accessible n is w's own definition, n is not a key of w's
\* clashing_properties and w's shadowed set of n is exactly p's clash set.
C6_OwnDeclarationResolvesClash ==
    \A w \in DOMAIN classes : \A p \in Parents(w) : \A n \in PropNames :
        ( /\ Parents(w) = {p}
          /\ Declares(w, n)
          /\ n \in DOMAIN Clash(p)
          /\ n \notin DOMAIN Shadow(p) ) =>
            /\ n \in DOMAIN Acc(w)
            /\ Acc(w)[n] = OwnDef(w, n)
            /\ Acc(w)[n].source = w
            /\ n \notin DOMAIN Clash(w)
            /\ n \in DOMAIN Shadow(w)
            /\ Shadow(w)[n] = Clash(p)[n]

\* e and all its ancestors have at most one parent
SingleChain(e) ==
    /\ Cardinality(Parents(e)) <= 1
    /\ \A a \in Ancestors(e) : Cardinality(Parents(a)) <= 1

\* the classes of e's chain that declare n
ChainDeclarers(e, n) == {x \in Ancestors(e) \cup {e} : Declares(x, n)}

\* C7: in a single-inheritance chain where a declares n, a descendant c
\* re-declares n and nobody else on the chain declares n, every class e below
\* c has c's definition accessible under n, exactly a's definition shadowed
\* under n, and n absent from clashing_properties.
C7_ChainOverride ==
    \A e \in DOMAIN classes : \A a, c \in DOMAIN classes : \A n \in PropNames :
        ( /\ SingleChain(e)
          /\ c \in Ancestors(e)
          /\ a \in Ancestors(c)
          /\ ChainDeclarers(e, n) = {a, c} ) =>
            /\ n \in DOMAIN Acc(e)
            /\ Acc(e)[n] = OwnDef(c, n)
            /\ n \in DOMAIN Shadow(e)
            /\ Shadow(e)[n] = {OwnDef(a, n)}
            /\ n \notin DOMAIN Clash(e)

\* C8: the ancestors of every registered ClassMeta are its parents united
\* with the ancestors of every parent; hence they contain the parents and
\* are closed under the parent relation.
C8_AncestorsClosure ==
    \A c \in DOMAIN classes :
        /\ Parents(c) \subseteq DOMAIN classes
        /\ Ancestors(c) = Parents(c) \cup UNION {Ancestors(p) : p \in Parents(c)}
        /\ Parents(c) \subseteq Ancestors(c)
        /\ \A a \in Ancestors(c) : a \in DOMAIN classes /\ Parents(a) \subseteq Ancestors(c)

\* a class with two parents whose ancestors reach beyond its parents
C8_Witness ==
    \E c \in DOMAIN classes :
        /\ Cardinality(Parents(c)) = 2
        /\ Ancestors(c) \ Parents(c) # {}

\* every Property held by one of the three maps of class c
PropertiesOf(c) ==
    {Acc(c)[n] : n \in DOMAIN Acc(c)}
        \cup UNION {Clash(c)[n] : n \in DOMAIN Clash(c)}
        \cup UNION {Shadow(c)[n] : n \in DOMAIN Shadow(c)}

\* C9: every Property in accessble_properties, clashing_properties or
\* shadowed_properties of a registered class c has source c or a member of
\* c's ancestors.
C9_SourcesAreAncestors ==
    \A c \in DOMAIN classes :
        \A prop \in PropertiesOf(c) : prop.source \in Ancestors(c) \cup {c}

\* a class holding an own Property and one inherited from an ancestor that is
\* not a parent, while some class has a clash set and some a shadowed set
C9_Witness ==
    /\ \E c \in DOMAIN classes :
        /\ \E n \in DOMAIN Acc(c) : Acc(c)[n].source = c
        /\ \E prop \in PropertiesOf(c) : prop.source \in Ancestors(c) \ Parents(c)
    /\ \E c \in DOMAIN classes : \E n \in DOMAIN Clash(c) : Clash(c)[n] # {}
    /\ \E c \in DOMAIN classes : \E n \in DOMAIN Shadow(c) : Shadow(c)[n] # {}

\* the Property values an add_property call of the model may carry for id
SuppliedValues(id) ==
    {NewProperty(id, t, s) : t \in ValidTypes \cup {Invalid}, s \in 0..MaxClasses}

SlotDefined(id) == id \in DOMAIN properties /\ is_valid(get_property(id).inner_type)
SlotReserved(id) == id \in DOMAIN properties /\ ~is_valid(get_property(id).inner_type)

\* C10: property slot lifecycle: an add_property on a reserved (Invalid) slot
\* returns Ok and stores the supplied Property; an add_property on a slot
\* that holds a valid Property returns DuplicateDef and changes nothing of the
\* registry; and no step ever changes a slot that holds a valid Property.
C10_PropertySlotLifecycle ==
    [][ /\ \A id \in DOMAIN properties : \A value \in SuppliedValues(id) :
            add_property(id, value) =>
                IF SlotDefined(id)
                THEN result'.ret = "DuplicateDef" /\ UNCHANGED reg_vars
                ELSE /\ result'.ret = "Ok"
                     /\ properties' = [properties EXCEPT ![id].prop = value]
                     /\ UNCHANGED <<classes, class_names, property_names,
                                    next_class_id, next_property_id>>
        /\ \A id \in DOMAIN properties :
            SlotDefined(id) =>
                id \in DOMAIN properties' /\ properties'[id] = properties[id]
        /\ (result'.op = "add_property" /\ result'.ret = "DuplicateDef")
              => (UNCHANGED reg_vars /\ \E id \in DOMAIN properties : SlotDefined(id))
        /\ (result'.op = "add_property" /\ result'.ret = "Ok")
              => \E id \in DOMAIN properties : SlotReserved(id)
      ]_vars

\* a direct add_property on a defined slot has just returned DuplicateDef to
\* a live process, while another slot is still reserved
C10_Witness ==
    /\ ~aborted
    /\ result.op = "add_property" /\ result.ret = "DuplicateDef"
    /\ \E id \in DOMAIN properties : SlotDefined(id)
    /\ \E id \in DOMAIN properties : SlotReserved(id)

\* ================================================== the registry's id tables
\* Option<Type> as get_type returns it: a primitive, Class(id), or None
Primitive(t) == [type |-> t, id |-> 0]
Class(id) == [type |-> "Class", id |-> id]
None == [type |-> "None", id |-> 0]

\* get_type with the class table consulted before the three literals
get_type_class_first(name) ==
    IF get_class_id(name) # 0 THEN Class(get_class_id(name))
    ELSE IF name = "int" THEN Primitive("Int")
    ELSE IF name = "float" THEN Primitive("Float")
    ELSE IF name = "string" THEN Primitive("String")
    ELSE None

\* match name { "int" => .., "float" => .., "string" => ..,
\*              _ => self.get_class_id(name).map(Type::Class) }
get_type(name) ==
    IF name = "int" THEN Primitive("Int")
    ELSE IF name = "float" THEN Primitive("Float")
    ELSE IF name = "string" THEN Primitive("String")
    ELSE IF get_class_id(name) # 0 THEN Class(get_class_id(name))
    ELSE None

\* the names callers intern as classes, and the names they look up as types
RegClassNames == {"A", "int", "string"}
TypeNames == RegClassNames \cup {"float", "Z"}
\* the declaring classes handed to add_property_id
PropClasses == {1, 2}

\* reg.add_class_id(name)
CallAddClassId(name) ==
    /\ ~aborted
    /\ next_class_id <= MaxClasses
    /\ add_class_id(name)
    /\ UNCHANGED <<drv_vars, aborted, tok_vars>>

\* reg.get_type(name)
CallGetType(name) ==
    /\ ~aborted
    /\ result' = [op |-> "get_type", ret |-> get_type(name).type, id |-> get_type(name).id]
    /\ UNCHANGED <<reg_vars, drv_vars, aborted, tok_vars>>

\* reg.add_property_id(name, class)
CallAddPropertyId(name, class) ==
    /\ ~aborted
    /\ next_property_id <= MaxProps
    /\ add_property_id(name, class)
    /\ aborted' = (result'.ret = "panic")
    /\ UNCHANGED <<drv_vars, tok_vars>>

\* reg.add_class(id, ClassMeta::new(reg, id, parents, {})), parents registered
CallAddClass(id, parents, order) ==
    /\ ~aborted
    /\ add_class(id, ClassMetaNew(id, parents, EmptyMap, order))
    /\ UNCHANGED <<drv_vars, aborted, tok_vars>>

\* the parent sets of direct add_class calls: none, or one registered class
DirectParentSets == {{}} \cup {{p} : p \in DOMAIN classes}

\* the ids handed to direct add_class calls: an id add_class_id has returned,
\* or one it has not returned yet
DirectClassIds == 1..Cardinality(RegClassNames)

NextReg ==
    \/ \E name \in RegClassNames : CallAddClassId(name)
    \/ \E name \in TypeNames : CallGetType(name)
    \/ \E name \in PropNames : \E class \in PropClasses : CallAddPropertyId(name, class)
    \/ \E id \in DirectClassIds : \E parents \in DirectParentSets :
          \E order \in Orders(parents) : CallAddClass(id, parents, order)

SpecReg == Init /\ [][NextReg]_vars

\* ------------------------------------------------------------ claims C11-C14
\* id is a ClassID that add_class_id has returned
Interned(id) == \E nm \in DOMAIN class_names : class_names[nm] = id

\* C11: add_class(id, meta) on an id that already has a ClassMeta returns
\* DuplicateDef and changes nothing: the stored ClassMeta and its name, and
\* every other map and counter of the registry, stay as they were; and no
\* step of any kind ever changes what get_class(id) returns once it is set.
C11_DuplicateClassRejected ==
    [][/\ \A id \in DirectClassIds : \A parents \in DirectParentSets :
            \A order \in Orders(parents) :
               (has_class(id) /\ CallAddClass(id, parents, order))
                  => /\ result'.op = "add_class"
                     /\ result'.ret = "DuplicateDef"
                     /\ UNCHANGED reg_vars
       /\ \A id \in DOMAIN classes :
             id \in DOMAIN classes' /\ classes'[id] = classes[id]]_vars

\* a second add_class has just been refused on a registered id (every id the
\* callers use is interned, so the refusal is the Occupied branch), while a
\* class with a parent is registered: the refused ClassMeta values include
\* ones that differ from the stored one
C11_Witness ==
    /\ result.op = "add_class" /\ result.ret = "DuplicateDef"
    /\ \A id \in DirectClassIds : Interned(id)
    /\ \E id \in DOMAIN classes : Parents(id) # {}

\* C12: add_class_id(name) returns the id it returned before for the same
\* name, and otherwise the next unused id: the k-th distinct name gets id k
\* (1, 2, 3, ... in first-reference order), distinct names never share an
\* id, 0 is never returned, and an id once given to a name never changes.
C12_ClassIdsSequential ==
    /\ [](/\ \A n \in DOMAIN class_names :
                class_names[n] \in 1..Cardinality(DOMAIN class_names)
          /\ \A n1, n2 \in DOMAIN class_names :
                class_names[n1] = class_names[n2] => n1 = n2)
    /\ [][/\ \A name \in RegClassNames :
                CallAddClassId(name)
                   => /\ result'.op = "add_class_id"
                      /\ result'.id # 0
                      /\ name \in DOMAIN class_names' /\ class_names'[name] = result'.id
                      /\ IF name \in DOMAIN class_names
                         THEN result'.id = class_names[name]
                         ELSE result'.id = Cardinality(DOMAIN class_names) + 1
          /\ \A n \in DOMAIN class_names :
                n \in DOMAIN class_names' /\ class_names'[n] = class_names[n]]_vars

\* the first name has just been referred to again, after three distinct
\* names were interned, and got its id 1 back
C12_Witness ==
    /\ result.op = "add_class_id" /\ result.id = 1
    /\ Cardinality(DOMAIN class_names) = 3

\* the PropertyIDs some (name, class) pair is mapped to
InternedPropertyIds ==
    UNION {{property_names[n][c] : c \in DOMAIN property_names[n]} :
              n \in DOMAIN property_names}

\* C13: every id add_property_id returns is new: it is no id returned before
\* (each returned id got a properties slot, and slots are never removed) and
\* no id any pair maps to; a call on a pair that is already interned panics
\* and returns nothing; and while the process has not aborted the id a pair
\* maps to never changes, so no pair ever has two ids.
C13_PropertyIdsFresh ==
    [][/\ \A name \in PropNames : \A class \in PropClasses :
            CallAddPropertyId(name, class)
               => IF get_property_id(name, class) # 0
                  THEN result'.ret = "panic" /\ aborted'
                  ELSE /\ result'.ret = "Ok" /\ ~aborted'
                       /\ result'.id # 0
                       /\ result'.id \notin DOMAIN properties
                       /\ result'.id \notin InternedPropertyIds
                       /\ result'.id \in DOMAIN properties'
                       /\ property_names'[name][class] = result'.id
       /\ DOMAIN properties \subseteq DOMAIN properties'
       /\ ~aborted' =>
             \A n \in DOMAIN property_names : \A c \in DOMAIN property_names[n] :
                /\ n \in DOMAIN property_names' /\ c \in DOMAIN property_names'[n]
                /\ property_names'[n][c] = property_names[n][c]]_vars

\* add_property_id has just panicked on a pair interned before, two ids
\* having been returned by earlier calls
C13_Witness ==
    /\ aborted /\ result.op = "add_property_id" /\ result.ret = "panic"
    /\ Cardinality(DOMAIN properties) >= 2

\* the three names get_type answers without looking at the class table
TypeLiterals == {"int", "float", "string"}

\* C14: get_type("int"), get_type("float"), get_type("string") return Int,
\* Float, String in every registry state, also when the name has been
\* interned as a class; for any other name get_type returns Class(id) with
\* the id add_class_id gave the name, and None when the name is not interned;
\* the call changes nothing in the registry.
C14_GetType ==
    [][\A name \in TypeNames :
          CallGetType(name)
             => /\ result'.op = "get_type"
                /\ name = "int" => (result'.ret = "Int" /\ result'.id = 0)
                /\ name = "float" => (result'.ret = "Float" /\ result'.id = 0)
                /\ name = "string" => (result'.ret = "String" /\ result'.id = 0)
                /\ (name \notin TypeLiterals /\ name \in DOMAIN class_names)
                      => (result'.ret = "Class" /\ result'.id = class_names[name])
                /\ (name \notin TypeLiterals /\ name \notin DOMAIN class_names)
                      => (result'.ret = "None" /\ result'.id = 0)
                /\ UNCHANGED reg_vars]_vars

\* get_type("int") has just returned Int although "int" is interned as a
\* class, next to an ordinary class name that is interned too
C14_Witness ==
    /\ result.op = "get_type" /\ result.ret = "Int"
    /\ "int" \in DOMAIN class_names /\ "A" \in DOMAIN class_names

\* ================================================================= tokenize
\* ---------------------------------------------------------------- bounds
\* every source of at most MaxLen characters over Alphabet is tokenized
MaxLen == 4
Alphabet == {" ", "\n", "/", "*", "\"", "\\", "n", "1", "=", "<"}

\* the 14 compound operators separated by single spaces
CompoundOperatorSource ==
    <<"<", "<", "=", " ", ">", ">", "=", " ", "=", "=", " ", "!", "=", " ",
      "<", "=", " ", ">", "=", " ", "+", "=", " ", "-", "=", " ", "*", "=",
      " ", "/", "=", " ", "%", "=", " ", "&", "=", " ", "|", "=", " ", "^",
      "=">>

\* a source with the single-character tokens, identifiers, numbers and a tab
PunctuationSource ==
    <<"(", "a", "_", "1", ",", "b", ")", ";", "\t", "{", "x", ":", "[",
      "2", ".", "5", "]", "}", "?", "@", "~", "+", "-", "%", "^", "&", "|",
      "!", ">">>

\* a closed string literal holding every kind of escape sequence, a raw
\* newline and a raw tab:  "a\tb\"c\\d\ne\qf<newline><tab>"
EscapeSource ==
    <<"\"", "a", "\\", "t", "b", "\\", "\"", "c", "\\", "\\", "d", "\\", "n",
      "e", "\\", "q", "f", "\n", "\t", "\"">>

\* a balanced comment with a nested comment and the text /*/ in it, an
\* identifier after it:  /*/*/n*/*/n
NestedCommentSource ==
    <<"/", "*", "/", "*", "/", "n", "*", "/", "*", "/", "n">>

\* digit runs around the largest i32, an identifier or operator after them:
\* 2147483647=  2147483648n  0002147483647  21474836470
NumberSources ==
    {<<"2", "1", "4", "7", "4", "8", "3", "6", "4", "7", "=">>,
     <<"2", "1", "4", "7", "4", "8", "3", "6", "4", "8", "n">>,
     <<"0", "0", "0", "2", "1", "4", "7", "4", "8", "3", "6", "4", "7">>,
     <<"2", "1", "4", "7", "4", "8", "3", "6", "4", "7", "0">>}

\* every single-character operator and punctuation standing alone
SingleCharacterSources ==
    {<<c>> : c \in {"+", "-", "*", "/", "%", "^", "&", "|", "!", "~", "=", ";",
                    ":", ",", ".", "?", "@", "(", ")", "{", "}", "[", "]"}}

Inputs ==
    UNION {[1..n -> Alphabet] : n \in 0..MaxLen}
       \cup {CompoundOperatorSource, PunctuationSource, EscapeSource,
             NestedCommentSource}
       \cup NumberSources \cup SingleCharacterSources

\* ------------------------------------------------------ character classes
\* '0'..='9', char::is_ascii_digit
Digits == {"0", "1", "2", "3", "4", "5", "6", "7", "8", "9"}

\* 'a'..='z' | 'A'..='Z' | '_'
IdentifierLead ==
    {"a", "b", "c", "d", "e", "f", "g", "h", "i", "j", "k", "l", "m",
     "n", "o", "p", "q", "r", "s", "t", "u", "v", "w", "x", "y", "z",
     "A", "B", "C", "D", "E", "F", "G", "H", "I", "J", "K", "L", "M",
     "N", "O", "P", "Q", "R", "S", "T", "U", "V", "W", "X", "Y", "Z", "_"}

\* ch.is_alphanumeric() || ch == '_', over the characters of the sources
IdentifierPart == IdentifierLead \cup Digits

\* the lead characters whose arm is: next '=' -> compound, else single
EqualOperators == {"+", "-", "%", "^", "&", "|", "!", "="}
AngleOperators == {"<", ">"}
Punctuation == {";", ":", ",", ".", "?", "@", "(", ")", "{", "}", "[", "]"}

\* the characters some arm before the catch-all matches
Matched ==
    {" ", "\t", "\n", "/", "\"", "*"} \cup Digits \cup IdentifierLead
       \cup EqualOperators \cup AngleOperators \cup Punctuation

\* ------------------------------------------------------- tokens and errors
Token(kind) == [kind |-> kind, text |-> <<>>, num |-> 0]
TokenNumber(n) == [kind |-> "Number", text |-> <<>>, num |-> n]
TokenIdentifier(text) == [kind |-> "Identifier", text |-> text, num |-> 0]
TokenString(text) == [kind |-> "String", text |-> text, num |-> 0]
EOF == Token("EOF")
EOL == Token("EOL")

InvalidCharacter(c, line, col) ==
    [kind |-> "InvalidCharacter", ch |-> c, line |-> line, col |-> col]
UnterminatedString(line, col) ==
    [kind |-> "UnterminatedString", ch |-> "", line |-> line, col |-> col]
UnmatchedCommentClosure(line, col) ==
    [kind |-> "UnmatchedCommentClosure", ch |-> "", line |-> line, col |-> col]
InvalidNestedComment(line, col) ==
    [kind |-> "InvalidNestedComment", ch |-> "", line |-> line, col |-> col]

\* the token of a lead character that stands alone
SingleToken(c) ==
    CASE c = "+" -> "Plus" [] c = "-" -> "Minus" [] c = "*" -> "Star"
      [] c = "/" -> "Slash" [] c = "%" -> "Percent" [] c = "^" -> "Caret"
      [] c = "&" -> "And" [] c = "|" -> "Or" [] c = "!" -> "Not"
      [] c = "=" -> "Equal" [] c = "<" -> "Less" [] c = ">" -> "Greater"
      [] c = ";" -> "Semicolon" [] c = ":" -> "Colon" [] c = "," -> "Comma"
      [] c = "." -> "Dot" [] c = "?" -> "Question" [] c = "@" -> "At"
      [] c = "(" -> "LParen" [] c = ")" -> "RParen" [] c = "{" -> "LBrace"
      [] c = "}" -> "RBrace" [] c = "[" -> "LBracket" [] c = "]" -> "RBracket"

\* the token of a lead character followed by '='
EqualToken(c) ==
    CASE c = "+" -> "PlusEqual" [] c = "-" -> "MinusEqual" [] c = "*" -> "StarEqual"
      [] c = "/" -> "SlashEqual" [] c = "%" -> "PercentEqual" [] c = "^" -> "CaretEqual"
      [] c = "&" -> "AndEqual" [] c = "|" -> "OrEqual" [] c = "!" -> "NotEqual"
      [] c = "=" -> "DoubleEqual" [] c = "<" -> "LessEqual" [] c = ">" -> "GreaterEqual"

\* '<<' and '>>', and '<<=' and '>>='
ShiftToken(c) == IF c = "<" THEN "LeftShift" ELSE "RightShift"
ShiftEqualToken(c) == IF c = "<" THEN "LeftShiftEqual" ELSE "RightShiftEqual"

\* ------------------------------------------------------ the scan's pieces
other_vars == <<reg_vars, drv_vars, result, aborted>>
locals == <<depth, comment_start_line, comment_start_column,
            string_start_line, string_start_column, string_literal, start>>

\* the character at index i of the source, "" past its end (chars.peek()
\* and chars.next() yielding None)
At(i) == IF i <= Len(input) THEN input[i] ELSE ""

\* update of (line, column) after a character of a comment or a string
LineAfter(ch, line) == IF ch = "\n" THEN line + 1 ELSE line
ColumnAfter(ch, column) == IF ch = "\n" THEN 1 ELSE column + 1

\* n characters are consumed, tokens and errors are appended, the counters
\* and the loop the scan is in are set
Scan(n, new_tokens, new_errors, line, column, new_mode) ==
    /\ chars' = chars + n
    /\ tokens' = tokens \o new_tokens
    /\ errors' = errors \o new_errors
    /\ current_line' = line
    /\ current_column' = column
    /\ mode' = new_mode
    /\ UNCHANGED <<input, first_pass, other_vars>>

\* the locals of an inner loop go out of scope
DropLocals ==
    /\ depth' = 0
    /\ comment_start_line' = 0
    /\ comment_start_column' = 0
    /\ string_start_line' = 0
    /\ string_start_column' = 0
    /\ string_literal' = <<>>
    /\ start' = 0

\* the main loop has a character to dispatch on
Dispatch == mode = "main" /\ chars <= Len(input)

\* tokenize(input, reporter) is entered with a fresh reporter
InitTok ==
    /\ RegistryNew
    /\ input \in Inputs
    /\ chars = 1
    /\ tokens = <<>>
    /\ errors = <<>>
    /\ current_line = 1
    /\ current_column = 1
    /\ mode = "main"
    /\ NoLocals
    /\ first_pass = <<>>

\* a space or a tab lexed as a line end
WhitespaceAsEOL ==
    /\ Dispatch /\ At(chars) \in {" ", "\t"}
    /\ Scan(1, <<EOL>>, <<>>, current_line, current_column + 1, "main")
    /\ UNCHANGED locals

\* ' ' | '\t'
Whitespace ==
    /\ Dispatch /\ At(chars) \in {" ", "\t"}
    /\ Scan(1, <<>>, <<>>, current_line, current_column + 1, "main")
    /\ UNCHANGED locals

\* '\n'
Newline ==
    /\ Dispatch /\ At(chars) = "\n"
    /\ Scan(1, <<EOL>>, <<>>, current_line + 1, 1, "main")
    /\ UNCHANGED locals

\* the loop of a line comment goes on while a character other than '\n' is next
LineCommentMode(i) == IF At(i) \notin {"", "\n"} THEN "line_comment" ELSE "main"

\* '/' then '/'
LineCommentOpen ==
    /\ Dispatch /\ At(chars) = "/" /\ At(chars + 1) = "/"
    /\ Scan(2, <<>>, <<>>, current_line, current_column + 2, LineCommentMode(chars + 2))
    /\ UNCHANGED locals

\* while let Some(&(_, ch)) = chars.peek() { if ch == '\n' { break; } chars.next(); }
LineCommentStep ==
    /\ mode = "line_comment"
    /\ Scan(1, <<>>, <<>>, current_line, current_column, LineCommentMode(chars + 1))
    /\ UNCHANGED locals

\* '/' then '*': current_column += 2, then the start position is taken; when
\* the source ends here the loop body never runs and depth is still 1
BlockCommentOpen ==
    /\ Dispatch /\ At(chars) = "/" /\ At(chars + 1) = "*"
    /\ IF chars + 2 > Len(input)
       THEN /\ Scan(2, <<>>, <<InvalidNestedComment(current_line, current_column + 2)>>,
                    current_line, current_column + 2, "main")
            /\ UNCHANGED locals
       ELSE /\ Scan(2, <<>>, <<>>, current_line, current_column + 2, "block_comment")
            /\ depth' = 1
            /\ comment_start_line' = current_line
            /\ comment_start_column' = current_column + 2
            /\ UNCHANGED <<string_start_line, string_start_column, string_literal, start>>

\* the comment loop consuming one character per iteration, so that the second
\* character of an opener or closer is looked at again
BlockCommentStepOverlapping ==
    LET ch == At(chars)
        opens == ch = "/" /\ At(chars + 1) = "*"
        closes == ch = "*" /\ At(chars + 1) = "/"
        d == IF opens THEN depth + 1 ELSE IF closes THEN depth - 1 ELSE depth
        line == LineAfter(ch, current_line)
        column == ColumnAfter(ch, current_column)
    IN
    /\ mode = "block_comment"
    /\ IF d = 0
       THEN Scan(1, <<>>, <<>>, line, column, "main") /\ DropLocals
       ELSE IF chars + 1 > Len(input)
       THEN /\ Scan(1, <<>>,
                    <<InvalidNestedComment(comment_start_line, comment_start_column)>>,
                    line, column, "main")
            /\ DropLocals
       ELSE /\ Scan(1, <<>>, <<>>, line, column, "block_comment")
            /\ depth' = d
            /\ UNCHANGED <<comment_start_line, comment_start_column,
                           string_start_line, string_start_column, string_literal, start>>

\* one iteration of  while let Some((_, ch)) = chars.next()  in a block
\* comment, and what follows it when the loop ends there (depth 0, or the
\* end of the source with the comment still open)
BlockCommentStep ==
    LET ch == At(chars)
        opens == ch = "/" /\ At(chars + 1) = "*"
        closes == ch = "*" /\ At(chars + 1) = "/"
        n == IF opens \/ closes THEN 2 ELSE 1
        d == IF opens THEN depth + 1 ELSE IF closes THEN depth - 1 ELSE depth
        line == LineAfter(ch, current_line)
        column == ColumnAfter(ch, current_column) + (IF opens \/ closes THEN 1 ELSE 0)
    IN
    /\ mode = "block_comment"
    /\ IF d = 0
       THEN Scan(n, <<>>, <<>>, line, column, "main") /\ DropLocals
       ELSE IF chars + n > Len(input)
       THEN /\ Scan(n, <<>>,
                    <<InvalidNestedComment(comment_start_line, comment_start_column)>>,
                    line, column, "main")
            /\ DropLocals
       ELSE /\ Scan(n, <<>>, <<>>, line, column, "block_comment")
            /\ depth' = d
            /\ UNCHANGED <<comment_start_line, comment_start_column,
                           string_start_line, string_start_column, string_literal, start>>

\* '/' that opens no comment: next '=' -> SlashEqual, else Slash
SlashOperator ==
    /\ Dispatch /\ At(chars) = "/" /\ At(chars + 1) \notin {"/", "*"}
    /\ IF At(chars + 1) = "="
       THEN Scan(2, <<Token("SlashEqual")>>, <<>>, current_line, current_column + 2, "main")
       ELSE Scan(1, <<Token("Slash")>>, <<>>, current_line, current_column + 1, "main")
    /\ UNCHANGED locals

\* escape sequences left undecoded: the character after the backslash as is
UnescapeVerbatim(esc) == esc

\* the character an escape sequence stands for
Unescape(esc) ==
    CASE esc = "n" -> "\n"
      [] esc = "t" -> "\t"
      [] OTHER -> esc

\* the String token pushed only for a literal that was closed
StringTokensIfTerminated(literal, terminated) ==
    IF terminated THEN <<TokenString(literal)>> ELSE <<>>

\* tokens.push(Token::String(string_literal)), terminated or not
StringTokens(literal, terminated) == <<TokenString(literal)>>

\* '"': current_column += 1, then the start position is taken; when the
\* source ends here the loop body never runs and terminated is false
StringOpen ==
    /\ Dispatch /\ At(chars) = "\""
    /\ IF chars + 1 > Len(input)
       THEN /\ Scan(1, StringTokens(<<>>, FALSE),
                    <<UnterminatedString(current_line, current_column + 1)>>,
                    current_line, current_column + 1, "main")
            /\ UNCHANGED locals
       ELSE /\ Scan(1, <<>>, <<>>, current_line, current_column + 1, "string")
            /\ string_start_line' = current_line
            /\ string_start_column' = current_column + 1
            /\ string_literal' = <<>>
            /\ UNCHANGED <<depth, comment_start_line, comment_start_column, start>>

\* one iteration of  while let Some((_, ch)) = chars.next()  in a string
\* literal, and what follows it when the loop ends there (break, or the end
\* of the source): the error of an unterminated literal, the String token
StringStep ==
    LET ch == At(chars)
        escape == ch = "\\" /\ At(chars + 1) # ""
        dangling == ch = "\\" /\ At(chars + 1) = ""
        closing == ch = "\""
        n == IF escape THEN 2 ELSE 1
        literal == IF escape THEN Append(string_literal, Unescape(At(chars + 1)))
                   ELSE IF dangling \/ closing THEN string_literal
                   ELSE Append(string_literal, ch)
        line == IF escape \/ dangling \/ closing THEN current_line
                ELSE LineAfter(ch, current_line)
        column == IF escape THEN current_column + 2
                  ELSE IF dangling THEN current_column
                  ELSE IF closing THEN current_column + 1
                  ELSE ColumnAfter(ch, current_column)
        unterminated == UnterminatedString(string_start_line, string_start_column)
    IN
    /\ mode = "string"
    /\ IF closing
       THEN Scan(n, StringTokens(literal, TRUE), <<>>, line, column, "main") /\ DropLocals
       ELSE IF dangling
       THEN /\ Scan(n, StringTokens(literal, FALSE),
                    <<UnterminatedString(current_line, current_column), unterminated>>,
                    line, column, "main")
            /\ DropLocals
       ELSE IF chars + n > Len(input)
       THEN /\ Scan(n, StringTokens(literal, FALSE), <<unterminated>>, line, column, "main")
            /\ DropLocals
       ELSE /\ Scan(n, <<>>, <<>>, line, column, "string")
            /\ string_literal' = literal
            /\ UNCHANGED <<depth, comment_start_line, comment_start_column,
                           string_start_line, string_start_column, start>>

\* i32::MAX
I32Max == 2147483647

DigitValue(d) ==
    CASE d = "0" -> 0 [] d = "1" -> 1 [] d = "2" -> 2 [] d = "3" -> 3 [] d = "4" -> 4
      [] d = "5" -> 5 [] d = "6" -> 6 [] d = "7" -> 7 [] d = "8" -> 8 [] d = "9" -> 9

\* num_str.parse::<i32>() on a run of digits: the value, or -1 for Err when
\* acc * 10 + digit would leave the i32 range (checked_mul, checked_add)
RECURSIVE ParseI32(_, _, _)
ParseI32(digits, i, acc) ==
    IF i > Len(digits) THEN acc
    ELSE IF acc > (I32Max - DigitValue(digits[i])) \div 10 THEN -1
    ELSE ParseI32(digits, i + 1, acc * 10 + DigitValue(digits[i]))

\* after the digit loop: match num_str.parse::<i32>() { Ok => Number token,
\* Err => InvalidCharacter(first digit, current_line, current_column) }
NumberTokens(first, end) ==
    IF ParseI32(SubSeq(input, first, end), 1, 0) >= 0
    THEN <<TokenNumber(ParseI32(SubSeq(input, first, end), 1, 0))>>
    ELSE <<>>
NumberErrors(first, end, line, column) ==
    IF ParseI32(SubSeq(input, first, end), 1, 0) >= 0
    THEN <<>>
    ELSE <<InvalidCharacter(input[first], line, column)>>

\* '0'..='9': the lead digit is consumed by the main loop (no column update)
NumberStart ==
    /\ Dispatch /\ At(chars) \in Digits
    /\ IF At(chars + 1) \in Digits
       THEN /\ Scan(1, <<>>, <<>>, current_line, current_column, "number")
            /\ start' = chars
            /\ UNCHANGED <<depth, comment_start_line, comment_start_column,
                           string_start_line, string_start_column, string_literal>>
       ELSE /\ Scan(1, NumberTokens(chars, chars),
                    NumberErrors(chars, chars, current_line, current_column),
                    current_line, current_column, "main")
            /\ UNCHANGED locals

\* the digit loop peeking at the next digit without consuming it
NumberStepPeekOnly ==
    /\ mode = "number"
    /\ Scan(0, <<>>, <<>>, current_line, current_column + 1, "number")
    /\ UNCHANGED locals

\* a digit loop that pushes the Number token without parsing the run, the
\* value cut to the digits that fit
NumberStepNoParse ==
    /\ mode = "number"
    /\ IF At(chars + 1) \in Digits
       THEN /\ Scan(1, <<>>, <<>>, current_line, current_column + 1, "number")
            /\ UNCHANGED locals
       ELSE /\ Scan(1, <<TokenNumber(ParseI32(SubSeq(input, start, start), 1, 0))>>,
                    <<>>, current_line, current_column + 1, "main")
            /\ DropLocals

\* one iteration of the digit loop, and the parse when the run ends there
NumberStep ==
    /\ mode = "number"
    /\ IF At(chars + 1) \in Digits
       THEN /\ Scan(1, <<>>, <<>>, current_line, current_column + 1, "number")
            /\ UNCHANGED locals
       ELSE /\ Scan(1, NumberTokens(start, chars),
                    NumberErrors(start, chars, current_line, current_column + 1),
                    current_line, current_column + 1, "main")
            /\ DropLocals

\* 'a'..='z' | 'A'..='Z' | '_': the lead character is consumed by the main
\* loop (no column update)
IdentifierStart ==
    /\ Dispatch /\ At(chars) \in IdentifierLead
    /\ IF At(chars + 1) \in IdentifierPart
       THEN /\ Scan(1, <<>>, <<>>, current_line, current_column, "identifier")
            /\ start' = chars
            /\ UNCHANGED <<depth, comment_start_line, comment_start_column,
                           string_start_line, string_start_column, string_literal>>
       ELSE /\ Scan(1, <<TokenIdentifier(SubSeq(input, chars, chars))>>, <<>>,
                    current_line, current_column, "main")
            /\ UNCHANGED locals

\* one iteration of the identifier loop, and the token when the run ends there
IdentifierStep ==
    /\ mode = "identifier"
    /\ IF At(chars + 1) \in IdentifierPart
       THEN /\ Scan(1, <<>>, <<>>, current_line, current_column + 1, "identifier")
            /\ UNCHANGED locals
       ELSE /\ Scan(1, <<TokenIdentifier(SubSeq(input, start, chars))>>, <<>>,
                    current_line, current_column + 1, "main")
            /\ DropLocals

\* '+' '-' '%' '^' '&' '|' '!' '=': next '=' -> the compound token, else
\* the single one
EqualOperator ==
    /\ Dispatch /\ At(chars) \in EqualOperators
    /\ IF At(chars + 1) = "="
       THEN Scan(2, <<Token(EqualToken(At(chars)))>>, <<>>,
                 current_line, current_column + 2, "main")
       ELSE Scan(1, <<Token(SingleToken(At(chars)))>>, <<>>,
                 current_line, current_column + 1, "main")
    /\ UNCHANGED locals

\* '*' without the test for a comment closure: '*' before '/' is a Star
StarOperatorNoClosure ==
    /\ Dispatch /\ At(chars) = "*"
    /\ IF At(chars + 1) = "="
       THEN Scan(2, <<Token("StarEqual")>>, <<>>, current_line, current_column + 2, "main")
       ELSE Scan(1, <<Token("Star")>>, <<>>, current_line, current_column + 1, "main")
    /\ UNCHANGED locals

\* '*': next '/' -> UnmatchedCommentClosure and no token; next '=' ->
\* StarEqual; else Star
StarOperator ==
    /\ Dispatch /\ At(chars) = "*"
    /\ IF At(chars + 1) = "/"
       THEN Scan(2, <<>>, <<UnmatchedCommentClosure(current_line, current_column)>>,
                 current_line, current_column + 2, "main")
       ELSE IF At(chars + 1) = "="
       THEN Scan(2, <<Token("StarEqual")>>, <<>>, current_line, current_column + 2, "main")
       ELSE Scan(1, <<Token("Star")>>, <<>>, current_line, current_column + 1, "main")
    /\ UNCHANGED locals

\* shift operators tokenized as two single tokens ('<<' as Less, Less)
AngleOperatorNoShift ==
    /\ Dispatch /\ At(chars) \in AngleOperators
    /\ IF At(chars + 1) = "="
       THEN Scan(2, <<Token(EqualToken(At(chars)))>>, <<>>,
                 current_line, current_column + 2, "main")
       ELSE Scan(1, <<Token(SingleToken(At(chars)))>>, <<>>,
                 current_line, current_column + 1, "main")
    /\ UNCHANGED locals

\* '<' '>': next '=' -> LessEqual / GreaterEqual; next the same character ->
\* then next '=' -> the shift assignment, else the shift; else Less / Greater
AngleOperator ==
    /\ Dispatch /\ At(chars) \in AngleOperators
    /\ IF At(chars + 1) = "="
       THEN Scan(2, <<Token(EqualToken(At(chars)))>>, <<>>,
                 current_line, current_column + 2, "main")
       ELSE IF At(chars + 1) = At(chars)
       THEN IF At(chars + 2) = "="
            THEN Scan(3, <<Token(ShiftEqualToken(At(chars)))>>, <<>>,
                      current_line, current_column + 3, "main")
            ELSE Scan(2, <<Token(ShiftToken(At(chars)))>>, <<>>,
                      current_line, current_column + 2, "main")
       ELSE Scan(1, <<Token(SingleToken(At(chars)))>>, <<>>,
                 current_line, current_column + 1, "main")
    /\ UNCHANGED locals

\* ';' ':' ',' '.' '?' '@' '(' ')' '{' '}' '[' ']'
PunctuationToken ==
    /\ Dispatch /\ At(chars) \in Punctuation
    /\ Scan(1, <<Token(SingleToken(At(chars)))>>, <<>>,
            current_line, current_column + 1, "main")
    /\ UNCHANGED locals

\* _ => InvalidCharacter(c, current_line, current_column)
CatchAll ==
    /\ Dispatch /\ At(chars) \notin Matched
    /\ Scan(1, <<>>, <<InvalidCharacter(At(chars), current_line, current_column)>>,
            current_line, current_column + 1, "main")
    /\ UNCHANGED locals

\* tokenize returning without the end-of-file token
FinishNoEOF ==
    /\ mode = "main" /\ chars > Len(input)
    /\ Scan(0, <<>>, <<>>, current_line, current_column, "done")
    /\ UNCHANGED locals

\* chars.next() yields None: tokens.push(Token::EOF); tokens
Finish ==
    /\ mode = "main" /\ chars > Len(input)
    /\ Scan(0, <<EOF>>, <<>>, current_line, current_column, "done")
    /\ UNCHANGED locals

NextTok ==
    \/ Whitespace
    \/ Newline
    \/ LineCommentOpen
    \/ LineCommentStep
    \/ BlockCommentOpen
    \/ BlockCommentStep
    \/ SlashOperator
    \/ StringOpen
    \/ StringStep
    \/ NumberStart
    \/ NumberStep
    \/ IdentifierStart
    \/ IdentifierStep
    \/ EqualOperator
    \/ StarOperator
    \/ AngleOperator
    \/ PunctuationToken
    \/ CatchAll
    \/ Finish

SpecTok == InitTok /\ [][NextTok]_vars

\* tokenize is sequential code that is left to run: a loop that has a next
\* iteration executes it
SpecTokFair == InitTok /\ [][NextTok]_vars /\ WF_vars(NextTok)

\* ------------------------------------------------------------ claims C15-C20
\* the indices of the token vector that hold a token of this kind
TokensOfKind(kind) == {i \in 1..Len(tokens) : tokens[i].kind = kind}

\* C15: whatever the source, with or without lexical errors, the vector
\* tokenize returns ends with EOF and holds EOF exactly once; before the
\* return no EOF has been pushed.
C15_EndsWithSingleEOF ==
    /\ mode = "done" => /\ Len(tokens) >= 1
                        /\ tokens[Len(tokens)] = EOF
                        /\ TokensOfKind("EOF") = {Len(tokens)}
    /\ mode # "done" => TokensOfKind("EOF") = {}

\* tokenize has returned on a source with lexical errors, tokens pushed
\* before the EOF
C15_Witness ==
    /\ mode = "done" /\ errors # <<>> /\ Len(tokens) >= 2

\* C16: tokenize terminates on every source: every iteration of the main
\* loop and of the comment, string, number and identifier loops consumes at
\* least one character (the only step that consumes none is the return);
\* until the return there is always a next step, errors recorded or not;
\* the return is reached; and at the return every character is consumed.
C16_Terminates ==
    /\ [][mode' = "done" \/ chars' > chars]_vars
    /\ [](mode # "done" => ENABLED NextTok)
    /\ [](mode = "done" => chars = Len(input) + 1)
    /\ <>(mode = "done")

\* tokenize has returned with the whole of a source consumed on which it
\* recorded two errors or more
C16_Witness ==
    /\ mode = "done" /\ Len(errors) >= 2 /\ chars = Len(input) + 1

\* the 1-based line and column of the character at index i of the source
NewlinesBefore(i) == {j \in 1..(i - 1) : input[j] = "\n"}
LineOf(i) == 1 + Cardinality(NewlinesBefore(i))
ColumnOf(i) ==
    IF NewlinesBefore(i) = {} THEN i
    ELSE i - (CHOOSE j \in NewlinesBefore(i) : \A k \in NewlinesBefore(i) : k <= j)

\* the iteration of the block comment loop at hand closes the comment
CommentClosedHere == At(chars) = "*" /\ At(chars + 1) = "/" /\ depth = 1

\* C17: when the source ends inside a block comment, exactly one
\* InvalidNestedComment is appended and it carries the line and column of
\* the '/' of the outermost opener: the position taken when the comment is
\* opened is that of its '/', the error at the end of the source carries
\* that position, no other step of a comment appends an error, and the
\* returned vector still ends with EOF.
C17_UnclosedCommentPosition ==
    /\ [][/\ BlockCommentOpen
                => IF chars + 2 > Len(input)
                   THEN errors' = Append(errors,
                            InvalidNestedComment(LineOf(chars), ColumnOf(chars)))
                   ELSE /\ errors' = errors
                        /\ comment_start_line' = LineOf(chars)
                        /\ comment_start_column' = ColumnOf(chars)
          /\ BlockCommentStep
                => IF chars' > Len(input) /\ ~CommentClosedHere
                   THEN errors' = Append(errors,
                            InvalidNestedComment(comment_start_line, comment_start_column))
                   ELSE errors' = errors]_vars
    /\ [](mode = "done" => tokens[Len(tokens)] = EOF)

\* the operators of the Token set: spelling and token (tokenize.rs 16-26,
\* 43-60)
Operators ==
    {<<<<"+">>, "Plus">>, <<<<"-">>, "Minus">>,
     <<<<"*">>, "Star">>, <<<<"/">>, "Slash">>,
     <<<<"%">>, "Percent">>, <<<<"^">>, "Caret">>,
     <<<<"&">>, "And">>, <<<<"|">>, "Or">>,
     <<<<"!">>, "Not">>, <<<<"=">>, "Equal">>,
     <<<<"<">>, "Less">>, <<<<">">>, "Greater">>,
     <<<<"=", "=">>, "DoubleEqual">>, <<<<"!", "=">>, "NotEqual">>,
     <<<<"<", "=">>, "LessEqual">>, <<<<">", "=">>, "GreaterEqual">>,
     <<<<"+", "=">>, "PlusEqual">>, <<<<"-", "=">>, "MinusEqual">>,
     <<<<"*", "=">>, "StarEqual">>, <<<<"/", "=">>, "SlashEqual">>,
     <<<<"%", "=">>, "PercentEqual">>, <<<<"&", "=">>, "AndEqual">>,
     <<<<"|", "=">>, "OrEqual">>, <<<<"^", "=">>, "CaretEqual">>,
     <<<<"<", "<">>, "LeftShift">>, <<<<">", ">">>, "RightShift">>,
     <<<<"<", "<", "=">>, "LeftShiftEqual">>, <<<<">", ">", "=">>, "RightShiftEqual">>}

OperatorLeads == {"+", "-", "*", "/", "%", "^", "&", "|", "!", "=", "<", ">"}
CommentDelimiters == {<<"/", "/">>, <<"/", "*">>, <<"*", "/">>}

\* the k characters of the source from index i on, <<>> when it ends before
Spelled(i, k) == IF i + k - 1 <= Len(input) THEN SubSeq(input, i, i + k - 1) ELSE <<>>

\* what the source of the 14 compound operators must tokenize to
CompoundOperatorTokens ==
    <<Token("LeftShiftEqual"), Token("RightShiftEqual"), Token("DoubleEqual"),
      Token("NotEqual"), Token("LessEqual"), Token("GreaterEqual"),
      Token("PlusEqual"), Token("MinusEqual"), Token("StarEqual"),
      Token("SlashEqual"), Token("PercentEqual"), Token("AndEqual"),
      Token("OrEqual"), Token("CaretEqual"), EOF>>

\* C18: maximal munch. Whenever the main loop dispatches on an operator
\* lead character that does not start a comment delimiter ('//', '/*',
\* '*/'), it pushes exactly one token, that of the longest operator spelled
\* at that position, consumes exactly its characters and records no error;
\* and the source of the 14 compound operators separated by single spaces
\* yields those 14 tokens in order, then EOF, with no error.
C18_MaximalMunch ==
    /\ [][(Dispatch /\ At(chars) \in OperatorLeads
                    /\ Spelled(chars, 2) \notin CommentDelimiters)
            => \E op \in Operators :
                  /\ op[1] = Spelled(chars, Len(op[1]))
                  /\ \A longer \in Operators :
                        longer[1] = Spelled(chars, Len(longer[1]))
                           => Len(longer[1]) <= Len(op[1])
                  /\ tokens' = Append(tokens, Token(op[2]))
                  /\ chars' = chars + Len(op[1])
                  /\ errors' = errors]_vars
    /\ []((input = CompoundOperatorSource /\ mode = "done")
            => (tokens = CompoundOperatorTokens /\ errors = <<>>))

\* tokenize has returned on the source of the 14 compound operators
C18_Witness ==
    /\ input = CompoundOperatorSource /\ mode = "done" /\ Len(tokens) = 15

\* C19: a string literal whose closing quote is missing at the end of the
\* source, also one that ends right after a backslash, appends exactly one
\* UnterminatedString and it carries the line and column of the opening
\* quote: the position taken at the opening quote is that of the quote, the
\* step at which the source ends inside the literal appends that one error,
\* and no other step of a literal appends an error.
C19_UnterminatedStringPosition ==
    [][/\ StringOpen
            => IF chars + 1 > Len(input)
               THEN errors' = Append(errors,
                        UnterminatedString(LineOf(chars), ColumnOf(chars)))
               ELSE /\ errors' = errors
                    /\ string_start_line' = LineOf(chars)
                    /\ string_start_column' = ColumnOf(chars)
       /\ StringStep
            => IF chars' > Len(input) /\ At(chars) # "\""
               THEN errors' = Append(errors,
                        UnterminatedString(string_start_line, string_start_column))
               ELSE errors' = errors]_vars

\* the source holds no backslash: a literal's decoded text is its source text
NoEscapes == \A i \in 1..Len(input) : input[i] # "\\"

\* how many String tokens a token vector holds
StringTokenCount(toks) == Cardinality({i \in 1..Len(toks) : toks[i].kind = "String"})

\* C20: every opening quote yields exactly one String token, closed or not.
\* The step at the opening quote pushes the (empty) String token itself when
\* the source ends there and otherwise enters the literal pushing nothing;
\* a step inside the literal pushes nothing while the literal goes on and
\* exactly one String token when it ends, by its closing quote or by the end
\* of the source; the token of a literal cut off by the end of the source
\* carries the characters accumulated (in a source without escapes: the
\* source text after the opening quote); no other step pushes a String
\* token; and tokenize goes on to return with EOF last.
C20_OneStringTokenPerQuote ==
    /\ [][/\ StringOpen
                => IF chars + 1 > Len(input)
                   THEN tokens' = Append(tokens, TokenString(<<>>))
                   ELSE tokens' = tokens /\ mode' = "string"
          /\ StringStep
                => IF mode' = "string"
                   THEN tokens' = tokens
                   ELSE /\ Len(tokens') = Len(tokens) + 1
                        /\ SubSeq(tokens', 1, Len(tokens)) = tokens
                        /\ tokens'[Len(tokens')].kind = "String"
                        /\ (NoEscapes /\ At(chars) # "\"")
                              => tokens'[Len(tokens')].text
                                    = Append(string_literal, At(chars))
          /\ ~(StringOpen \/ StringStep)
                => StringTokenCount(tokens') = StringTokenCount(tokens)]_vars
    /\ []((mode = "string" /\ NoEscapes)
            => /\ input[chars - Len(string_literal) - 1] = "\""
               /\ string_literal = SubSeq(input, chars - Len(string_literal), chars - 1))
    /\ [](mode = "done" => tokens[Len(tokens)] = EOF)

\* tokenize has returned on a source whose only quote opens a literal that
\* the end of the source cuts off: the String token with the characters
\* accumulated is the last token before EOF
C20_Witness ==
    /\ mode = "done"
    /\ Cardinality({i \in 1..Len(input) : input[i] = "\""}) = 1
    /\ Len(tokens) >= 2
    /\ tokens[Len(tokens) - 1].kind = "String"
    /\ tokens[Len(tokens) - 1].text # <<>>
    /\ errors # <<>> /\ errors[Len(errors)].kind = "UnterminatedString"

\* ------------------------------------------------------------ claims C21-C25
\* the escape table: what a backslash followed by x stands for
EscapeTable(x) ==
    IF x = "\"" THEN "\""
    ELSE IF x = "\\" THEN "\\"
    ELSE IF x = "n" THEN "\n"
    ELSE IF x = "t" THEN "\t"
    ELSE x

\* the decoding of the body of a literal read from index i of the source on,
\* up to its closing quote or the end of the source
RECURSIVE DecodeFrom(_)
DecodeFrom(i) ==
    IF i > Len(input) \/ input[i] = "\"" THEN <<>>
    ELSE IF input[i] = "\\"
    THEN IF i + 1 > Len(input) THEN <<>>
         ELSE <<EscapeTable(input[i + 1])>> \o DecodeFrom(i + 2)
    ELSE <<input[i]>> \o DecodeFrom(i + 1)

\* C21: the payload of a String token is the decoding of the literal's body
\* under the escape table. Step by step: a backslash followed by x appends
\* what the table gives for x, and an escaped quote does not end the
\* literal; every other character but the closing quote is appended
\* unchanged. End to end: on a source that starts with a quote the first
\* token returned is the String token of the decoded body.
C21_StringPayloadDecoded ==
    /\ [][StringStep
            => LET ch == At(chars)
                   x == At(chars + 1)
                   text == IF mode' = "string" THEN string_literal'
                           ELSE tokens'[Len(tokens')].text
               IN /\ (ch = "\\" /\ x # "")
                        => /\ text = Append(string_literal, EscapeTable(x))
                           /\ chars' = chars + 2
                           /\ (mode' = "string" \/ chars' > Len(input))
                  /\ (ch # "\\" /\ ch # "\"")
                        => text = Append(string_literal, ch)
                  /\ ch = "\"" => (text = string_literal /\ mode' = "main")]_vars
    /\ []((mode = "done" /\ Len(input) >= 1 /\ input[1] = "\"")
            => tokens[1] = TokenString(DecodeFrom(2)))

\* tokenize has returned on the literal that holds every kind of escape
\* sequence, and its token carries a tab, a quote, a backslash and a newline
C21_Witness ==
    /\ mode = "done" /\ input = EscapeSource
    /\ tokens[1].kind = "String"
    /\ {"\t", "\"", "\\", "\n", "q"} \subseteq {tokens[1].text[i] : i \in 1..Len(tokens[1].text)}

\* error e carries a position that is not after the position error f carries
PositionLeq(e, f) == e.line < f.line \/ (e.line = f.line /\ e.col <= f.col)

\* C22: the errors one tokenize call appends to the sink are in source
\* order: along the sink's list the (line, column) positions they carry
\* never decrease, at any point of the scan of any source.
C22_ErrorsInSourceOrder ==
    \A i, j \in 1..Len(errors) : i < j => PositionLeq(errors[i], errors[j])

\* ---- round trip: the tokens of a simple source are written out and lexed again
\* the spelling of the single-character punctuation tokens
PunctuationSpellings ==
    {<<<<";">>, "Semicolon">>, <<<<":">>, "Colon">>, <<<<",">>, "Comma">>,
     <<<<".">>, "Dot">>, <<<<"?">>, "Question">>, <<<<"@">>, "At">>,
     <<<<"(">>, "LParen">>, <<<<")">>, "RParen">>, <<<<"{">>, "LBrace">>,
     <<<<"}">>, "RBrace">>, <<<<"[">>, "LBracket">>, <<<<"]">>, "RBracket">>}

\* the canonical spelling of a token: an identifier's text, a newline for
\* EOL, nothing for EOF, the operator's or punctuation's characters
CanonicalSpelling(tok) ==
    IF tok.kind = "Identifier" THEN tok.text
    ELSE IF tok.kind = "EOL" THEN <<"\n">>
    ELSE IF tok.kind = "EOF" THEN <<>>
    ELSE (CHOOSE sp \in Operators \cup PunctuationSpellings : sp[2] = tok.kind)[1]

\* the tokens from index i on in canonical spelling, a space between them
RECURSIVE Unparse(_, _)
Unparse(toks, i) ==
    IF i > Len(toks) THEN <<>>
    ELSE IF i = Len(toks) THEN CanonicalSpelling(toks[i])
    ELSE CanonicalSpelling(toks[i]) \o <<" ">> \o Unparse(toks, i + 1)

\* the source is made only of whitespace, operators, punctuation and
\* identifiers: no string, no comment, no number, no other character
SimpleSource ==
    /\ \A i \in 1..Len(input) :
          input[i] \in {" ", "\t", "\n"} \cup OperatorLeads \cup Punctuation
                          \cup IdentifierPart
    /\ \A i \in 1..Len(input) : Spelled(i, 2) \notin {<<"/", "/">>, <<"/", "*">>}
    /\ TokensOfKind("Number") = {}

\* tokenize has returned on a simple source: its tokens are written in
\* canonical spelling and tokenize is called on the result, fresh reporter
Respell ==
    /\ mode = "done" /\ first_pass = <<>> /\ SimpleSource
    /\ first_pass' = <<tokens>>
    /\ input' = Unparse(tokens, 1)
    /\ chars' = 1
    /\ tokens' = <<>>
    /\ errors' = <<>>
    /\ current_line' = 1
    /\ current_column' = 1
    /\ mode' = "main"
    /\ UNCHANGED <<locals, other_vars>>

NextRoundTrip == NextTok \/ Respell

SpecRoundTrip == InitTok /\ [][NextRoundTrip]_vars

\* C23: round trip on simple sources. For a source made only of whitespace,
\* operators and identifiers, tokenizing the canonical spelling of the
\* emitted tokens, separated by single spaces, returns the same token
\* sequence as the source itself.
C23_RoundTrip ==
    (mode = "done" /\ first_pass # <<>>) => tokens = first_pass[1]

\* the second call has returned on a respelling that differs from the source
\* it came from, with three tokens or more before the EOF
C23_Witness ==
    /\ mode = "done" /\ first_pass # <<>>
    /\ Len(tokens) >= 4
    /\ Len(input) > MaxLen
    /\ input # CompoundOperatorSource

\* ------------------------------------------ ErrorReporter (error_reporter.rs)
\* the longest list of errors the reporter is given
MaxErrors == 3

UnexpectedEOF(token, line, col) ==
    [kind |-> "UnexpectedEOF", ch |-> token, line |-> line, col |-> col]
ExpectedToken(expected, line, col) ==
    [kind |-> "ExpectedToken", ch |-> expected, line |-> line, col |-> col]

\* the errors handed to add_error: every variant; lines inside and outside the
\* source, columns inside a line, at its end, past it and zero
SinkErrors ==
    {InvalidCharacter("~", 1, 1), UnterminatedString(1, 2),
     UnmatchedCommentClosure(2, 1), InvalidNestedComment(1, 3),
     UnexpectedEOF("x", 3, 1), ExpectedToken(";", 0, 0),
     UnterminatedString(3, 17), InvalidCharacter("#", 2, 0)}

\* the sources handed to generate_report (no carriage returns)
ReportInputs ==
    {<<>>, <<"a", "b", "\n", "c">>, <<"a", "\n">>, <<"\n", "x", "y">>}

\* ErrorReporter::new() next to a source text
InitSink ==
    /\ RegistryNew
    /\ input \in ReportInputs
    /\ chars = 1
    /\ tokens = <<>>
    /\ errors = <<>>
    /\ current_line = 1
    /\ current_column = 1
    /\ mode = "idle"
    /\ NoLocals
    /\ first_pass = <<>>

\* what the calls on the reporter leave alone, errors and result aside
sink_frame == <<reg_vars, drv_vars, aborted, input, chars, tokens, current_line,
                current_column, mode, locals, first_pass>>

\* add_error that drops an error equal to a stored one
add_error_dedup(error) ==
    errors' = IF \E i \in 1..Len(errors) : errors[i] = error
              THEN errors ELSE Append(errors, error)

\* self.errors.push(error)
add_error(error) == errors' = Append(errors, error)

\* !self.errors.is_empty()
has_errors == Len(errors) # 0

\* input.lines(): the text between newlines, a last line without newline
\* included, no empty line after a final newline
RECURSIVE LinesFrom(_, _)
LinesFrom(src, i) ==
    IF i > Len(src) THEN <<>>
    ELSE LET ends == {j \in i..Len(src) : src[j] = "\n"}
             end == IF ends = {} THEN Len(src) + 1
                    ELSE CHOOSE j \in ends : \A k \in ends : j <= k
         IN  <<SubSeq(src, i, end - 1)>> \o LinesFrom(src, end + 1)

Lines(src) == LinesFrom(src, 1)

Placeholder ==
    <<"<", "l", "i", "n", "e", " ", "n", "o", "t", " ", "f", "o", "u", "n", "d", ">">>

\* the match on the variant: the title of the header
error_type(error) ==
    CASE error.kind = "InvalidCharacter" -> "Invalid Character"
      [] error.kind = "UnterminatedString" -> "Unterminated String"
      [] error.kind = "UnexpectedEOF" -> "Unexpected EOF"
      [] error.kind = "UnmatchedCommentClosure" -> "Unmatched Comment Closure"
      [] error.kind = "InvalidNestedComment" -> "Invalid Nested Comment"
      [] error.kind = "ExpectedToken" -> "Expected Token Missing"

\* the match on the variant: the explanation, a text and its argument
explanation(error) ==
    CASE error.kind = "InvalidCharacter" ->
            [text |-> "Encountered an invalid character: '{}'", arg |-> error.ch]
      [] error.kind = "UnterminatedString" ->
            [text |-> "String literal is missing a closing quote", arg |-> ""]
      [] error.kind = "UnexpectedEOF" ->
            [text |-> "Unexpected end-of-file while processing '{}'", arg |-> error.ch]
      [] error.kind = "UnmatchedCommentClosure" ->
            [text |-> "Found a comment closure '*/' without a matching '/*'", arg |-> ""]
      [] error.kind = "InvalidNestedComment" ->
            [text |-> "Improperly nested or unclosed comment", arg |-> ""]
      [] error.kind = "ExpectedToken" ->
            [text |-> "Expected token '{}' is missing", arg |-> error.ch]

\* the text of the error's line, or the placeholder
line_content(lines, line) ==
    IF line > 0 /\ line <= Len(lines) THEN lines[line] ELSE Placeholder

\* the line in three pieces: before the column, the emphasised character,
\* after it; the whole line unemphasised when the column is not in the line
highlighted_line(content, col) ==
    IF col > 0 /\ col <= Len(content)
    THEN LET before == SubSeq(content, 1, col - 1)
             rest == SubSeq(content, col, Len(content))
         IN  [before |-> before,
              err_char |-> IF rest = <<>> THEN <<>> ELSE SubSeq(rest, 1, 1),
              after |-> IF rest = <<>> THEN <<>> ELSE SubSeq(rest, 2, Len(rest))]
    ELSE [before |-> content, err_char |-> <<>>, after |-> <<>>]

\* the four lines pushed for one error
ErrorBlock(error, lines) ==
    <<[part |-> "header", error_type |-> error_type(error),
       line |-> error.line, col |-> error.col],
      [part |-> "explanation", explanation |-> explanation(error)],
      [part |-> "code",
       piece |-> highlighted_line(line_content(lines, error.line), error.col)],
      [part |-> "separator"]>>

RECURSIVE ReportFrom(_, _)
ReportFrom(k, lines) ==
    IF k > Len(errors) THEN <<>>
    ELSE ErrorBlock(errors[k], lines) \o ReportFrom(k + 1, lines)

\* generate_report going through the errors from the last to the first
RECURSIVE ReportDownFrom(_, _)
ReportDownFrom(k, lines) ==
    IF k < 1 THEN <<>>
    ELSE ErrorBlock(errors[k], lines) \o ReportDownFrom(k - 1, lines)

generate_report_reversed(src) == ReportDownFrom(Len(errors), Lines(src))

\* generate_report(input): the lines of the report
generate_report(src) == ReportFrom(1, Lines(src))

\* reporter.add_error(error)
CallAddError(error) ==
    /\ Len(errors) < MaxErrors
    /\ add_error(error)
    /\ result' = [op |-> "add_error", ret |-> "Ok", id |-> 0]
    /\ UNCHANGED sink_frame

\* reporter.has_errors()
CallHasErrors ==
    /\ result' = [op |-> "has_errors", ret |-> has_errors, id |-> 0]
    /\ UNCHANGED <<errors, sink_frame>>

\* reporter.generate_report(input)
CallGenerateReport ==
    /\ result' = [op |-> "generate_report", ret |-> generate_report(input), id |-> 0]
    /\ UNCHANGED <<errors, sink_frame>>

NextSink ==
    \/ \E error \in SinkErrors : CallAddError(error)
    \/ CallHasErrors
    \/ CallGenerateReport

SpecSink == InitSink /\ [][NextSink]_vars

\* ------------------------------------------------------------ claims C24-C25
\* C24: the sink keeps errors in insertion order without de-duplication.
\* Every add_error(e) leaves the stored list equal to the list before it
\* with e appended, also when e is already stored, and no other call changes
\* the list; has_errors() is false on a new reporter, true after every
\* add_error, never goes back to false, and the value it returns says
\* whether the list holds an error.
C24_SinkKeepsInsertionOrder ==
    /\ [](result.op = "new" => ~has_errors /\ errors = <<>>)
    /\ [][/\ \A error \in SinkErrors :
                CallAddError(error) => errors' = errors \o <<error>> /\ has_errors'
          /\ (~\E error \in SinkErrors : CallAddError(error)) => errors' = errors
          /\ has_errors => has_errors']_vars
    /\ [](result.op = "has_errors" => result.ret = (Len(errors) >= 1))

\* the same error was added twice in a row and has_errors() has answered true
C24_Witness ==
    /\ Len(errors) >= 3
    /\ errors[1] = errors[2] /\ errors[3] # errors[1]
    /\ result.op = "has_errors" /\ result.ret = TRUE

\* the number of lines of the source, and the text of its line l, by the
\* positions of its characters
SourceLineCount == Cardinality({LineOf(i) : i \in 1..Len(input)})
SourceLine(l) ==
    LET at == {i \in 1..Len(input) : LineOf(i) = l /\ input[i] # "\n"}
        first == CHOOSE i \in at : \A j \in at : i <= j
    IN  [j \in 1..Cardinality(at) |-> input[first + j - 1]]

C26_ReservedPropertyCarriesId ==
    [][\A name \in PropNames : \A class \in PropClasses :
          (CallAddPropertyId(name, class) /\ result'.ret = "Ok")
              => /\ result'.id \in DOMAIN properties'
                 /\ properties'[result'.id].prop =
                       [id |-> result'.id, inner_type |-> Invalid, source |-> 0]]_vars

\* C27: add_class(id, meta) on an id that add_class_id never returned aborts
\* the process and returns no value to the caller.
C27_AddClassUninternedAborts ==
    [][\A id \in DirectClassIds : \A parents \in DirectParentSets :
          \A order \in Orders(parents) :
              (CallAddClass(id, parents, order) /\ ~Interned(id))
                  => aborted' /\ result'.ret = "panic"]_vars

\* C28: add_property_id(name, class) with a class id that add_class_id never
\* returned aborts the process, so no reachable registry holds a property
\* reserved for a class id that was never interned.
C28_NoPropertyForUnknownClass ==
    /\ [][\A name \in PropNames : \A class \in PropClasses :
             (CallAddPropertyId(name, class) /\ ~Interned(class)) => aborted']_vars
    /\ [](\A name \in DOMAIN property_names :
             \A class \in DOMAIN property_names[name] : Interned(class))

\* ------------------------------------------------------------ claims C29-C30
\* the Properties shadowed under n in class c, none when n is not a key
ShadowedUnder(c, n) == IF n \in DOMAIN Shadow(c) THEN Shadow(c)[n] ELSE {}

\* C29: a clash persists in descendants: when a parent p of c has n in
\* clashing_properties and c does not declare n, n is a key of c's
\* clashing_properties, c's clash set of n contains every Property of p's,
\* and none of them is in c's shadowed set of n unless a parent of c already
\* has it shadowed under n.
C29_ClashPersists ==
    \A c \in DOMAIN classes : \A p \in Parents(c) : \A n \in DOMAIN Clash(p) :
        ~Declares(c, n) =>
            /\ n \in DOMAIN Clash(c)
            /\ Clash(p)[n] \subseteq Clash(c)[n]
            /\ \A prop \in Clash(p)[n] :
                  prop \in ShadowedUnder(c, n)
                      => \E q \in Parents(c) : prop \in ShadowedUnder(q, n)

\* C30: shadowing is sticky: for every class c, every parent p of c and every
\* name n, each Property in p's shadowed set of n is in c's shadowed set of
\* n; hence along a chain of descendants the set never loses a member.
C30_ShadowingSticky ==
    \A c \in DOMAIN classes : \A p \in Parents(c) : \A n \in DOMAIN Shadow(p) :
        /\ n \in DOMAIN Shadow(c)
        /\ Shadow(p)[n] \subseteq Shadow(c)[n]

\* a class with a grandparent whose non-empty shadowed set it still holds
\* next to a shadowed Property of its own making
C30_Witness ==
    \E c \in DOMAIN classes : \E p \in Parents(c) : \E g \in Parents(p) :
        \E n \in DOMAIN Shadow(g) :
            /\ Shadow(g)[n] # {}
            /\ Shadow(c)[n] \ Shadow(p)[n] # {}

\* ------------------------------------------------------------ claims C31-C33
\* C31: shadowed_properties holds only definitions displaced from
\* visibility: in every registered ClassMeta and for every name n, no
\* Property shadowed under n is the accessible Property of n or a member of
\* the clash set of n.
C31_ShadowedNotVisible ==
    \A c \in DOMAIN classes : \A n \in DOMAIN Shadow(c) :
        \A prop \in Shadow(c)[n] :
            /\ ~(n \in DOMAIN Acc(c) /\ Acc(c)[n] = prop)
            /\ ~(n \in DOMAIN Clash(c) /\ prop \in Clash(c)[n])

\* C32: every set stored under a name in clashing_properties of a registered
\* ClassMeta has at least two Properties, from at least two source classes.
C32_ClashSetsHaveTwoSources ==
    \A c \in DOMAIN classes : \A n \in DOMAIN Clash(c) :
        /\ Cardinality(Clash(c)[n]) >= 2
        /\ Cardinality({prop.source : prop \in Clash(c)[n]}) >= 2

\* C33: with every ClassMeta built by ClassMeta::new for the class's own id
\* and stored by one add_class, no class is a member of its own ancestors
\* and the parent relation is acyclic: every parent of a class was
\* registered before it, so parents carry smaller ids.
C33_NoSelfAncestor ==
    \A c \in DOMAIN classes :
        /\ c \notin Ancestors(c)
        /\ \A p \in Parents(c) : p \in DOMAIN classes /\ p < c
        /\ \A a \in Ancestors(c) : c \notin Ancestors(a)

\* a class with two parents and an ancestor that is not a parent
C33_Witness ==
    \E c \in DOMAIN classes :
        /\ Cardinality(Parents(c)) >= 2
        /\ \E a \in Ancestors(c) \ Parents(c) : Ancestors(a) = {}

\* ------------------------------------------------------------ claims C34-C35
\* the source has no comment opener and no string literal
NoCommentsNoStrings ==
    \A i \in 1..Len(input) :
        /\ input[i] # "\""
        /\ Spelled(i, 2) \notin {<<"/", "/">>, <<"/", "*">>}

\* C34: column tracking: on a source without comments and string literals,
\* whenever the main loop dispatches on a lead character the counters
\* (current_line, current_column) are the true 1-based line and column of
\* that character, so every InvalidCharacter of the catch-all arm carries
\* the position of its character.
C34_ColumnTracking ==
    (NoCommentsNoStrings /\ Dispatch) =>
        /\ current_line = LineOf(chars)
        /\ current_column = ColumnOf(chars)

\* C35: line tracking: at every point of the scan current_line is 1 plus the
\* number of newline characters consumed so far, those inside block
\* comments and string literals included, and every step whose last
\* consumed character is a newline leaves current_column at 1.
C35_LineTracking ==
    /\ [](mode # "idle" => current_line = 1 + Cardinality(NewlinesBefore(chars)))
    /\ [][(chars' > chars /\ input[chars' - 1] = "\n") => current_column' = 1]_vars

\* ------------------------------------------------------------ claims C36-C39
\* the index at which lexing resumes after a comment scanned from index j at
\* depth d, by a left-to-right scan in which each '/*' and each '*/' takes
\* both of its characters; 0 when the source ends with the comment open
RECURSIVE CommentEnd(_, _)
CommentEnd(j, d) ==
    IF j > Len(input) THEN 0
    ELSE IF Spelled(j, 2) = <<"/", "*">> THEN CommentEnd(j + 2, d + 1)
    ELSE IF Spelled(j, 2) = <<"*", "/">>
         THEN IF d = 1 THEN j + 2 ELSE CommentEnd(j + 2, d - 1)
    ELSE CommentEnd(j + 1, d)

\* C36: inside a block comment the depth follows a non-overlapping
\* left-to-right scan: the comment ends exactly at the first '*/' that
\* brings the depth from 1 to 0, depth stays >= 1 while in comment mode, and
\* a balanced comment emits no token and no error, lexing resuming at the
\* character after its last '/'. Each step of the loop keeps the end that
\* the scan gives for the comment and leaves the loop only there.
C36_CommentDepthScan ==
    /\ [](mode = "block_comment" => depth >= 1)
    /\ [][/\ (Dispatch /\ Spelled(chars, 2) = <<"/", "*">> /\ mode' = "block_comment")
               => /\ depth' = 1 /\ chars' = chars + 2
                  /\ tokens' = tokens /\ errors' = errors
          /\ mode = "block_comment" =>
               LET end == CommentEnd(chars, depth) IN
               IF mode' = "block_comment"
               THEN /\ CommentEnd(chars', depth') = end
                    /\ tokens' = tokens /\ errors' = errors
               ELSE IF end # 0
               THEN /\ chars' = end /\ mode' = "main"
                    /\ tokens' = tokens /\ errors' = errors
               ELSE chars' = Len(input) + 1 /\ Len(errors') = Len(errors) + 1]_vars

\* the comment holding a nested comment and the text /*/ is over, without an
\* error, and the identifier after it is the only token before EOF
C36_Witness ==
    /\ input = NestedCommentSource
    /\ mode = "done"
    /\ errors = <<>>
    /\ tokens = <<TokenIdentifier(<<"n">>), EOF>>

\* C37: a '*/' met outside any comment appends exactly one
\* UnmatchedCommentClosure error, pushes no token (neither Star nor Slash),
\* consumes both characters, and lexing resumes in the main loop at the
\* character after the '/'.
C37_UnmatchedClosure ==
    [][(Dispatch /\ Spelled(chars, 2) = <<"*", "/">>) =>
          /\ Len(errors') = Len(errors) + 1
          /\ SubSeq(errors', 1, Len(errors)) = errors
          /\ errors'[Len(errors')].kind = "UnmatchedCommentClosure"
          /\ tokens' = tokens
          /\ chars' = chars + 2
          /\ mode' = "main"]_vars

\* a source that starts with '*/' followed by an identifier has been lexed:
\* one error, the identifier and EOF
C37_Witness ==
    /\ mode = "done"
    /\ Spelled(1, 3) = <<"*", "/", "n">>
    /\ Len(errors) = 1 /\ errors[1].kind = "UnmatchedCommentClosure"
    /\ tokens[1].kind = "Identifier"
    /\ TokensOfKind("Star") = {} /\ TokensOfKind("Slash") = {}

\* a run of digits without its leading zeros
RECURSIVE Significant(_)
Significant(run) ==
    IF run # <<>> /\ run[1] = "0" THEN Significant(Tail(run)) ELSE run

\* the digits of the largest signed 32-bit integer
I32MaxDigits == <<"2", "1", "4", "7", "4", "8", "3", "6", "4", "7">>

\* a, b: digit runs of the same length; a is at most b as a number
DigitsLeq(a, b) ==
    \/ a = b
    \/ \E i \in 1..Len(a) :
          /\ \A j \in 1..(i - 1) : a[j] = b[j]
          /\ DigitValue(a[i]) < DigitValue(b[i])

\* the run denotes a number that fits a signed 32-bit integer
FitsI32(run) ==
    \/ Len(Significant(run)) < Len(I32MaxDigits)
    \/ /\ Len(Significant(run)) = Len(I32MaxDigits)
       /\ DigitsLeq(Significant(run), I32MaxDigits)

\* the number a run of digits denotes
RECURSIVE DecimalValue(_)
DecimalValue(run) ==
    IF run = <<>> THEN 0
    ELSE 10 * DecimalValue(SubSeq(run, 1, Len(run) - 1)) + DigitValue(run[Len(run)])

\* C38: a maximal run of ASCII digits whose value fits a signed 32-bit
\* integer pushes exactly one Number token with that value and no error; a
\* run that does not fit appends exactly one InvalidCharacter error carrying
\* the run's first digit and pushes no Number token; in both cases nothing is
\* pushed or appended before the end of the run and the main loop resumes
\* at the character after the run.
C38_NumberRuns ==
    [][((Dispatch /\ At(chars) \in Digits) \/ mode = "number") =>
          LET first == IF mode = "number" THEN start ELSE chars
              run == SubSeq(input, first, chars' - 1)
          IN  IF mode' = "number"
              THEN /\ At(chars') \in Digits
                   /\ tokens' = tokens /\ errors' = errors
              ELSE /\ mode' = "main"
                   /\ \A i \in first..(chars' - 1) : input[i] \in Digits
                   /\ At(chars') \notin Digits
                   /\ first = 1 \/ input[first - 1] \notin Digits
                   /\ IF FitsI32(run)
                      THEN /\ tokens' = Append(tokens, TokenNumber(DecimalValue(run)))
                           /\ errors' = errors
                      ELSE /\ tokens' = tokens
                           /\ Len(errors') = Len(errors) + 1
                           /\ SubSeq(errors', 1, Len(errors)) = errors
                           /\ errors'[Len(errors')].kind = "InvalidCharacter"
                           /\ errors'[Len(errors')].ch = input[first]]_vars

\* a run of ten digits that does not fit has been lexed to one error and the
\* identifier after it, and no Number token
C38_Witness ==
    /\ mode = "done"
    /\ Len(input) = 11 /\ input[10] = "8" /\ input[11] = "n"
    /\ Len(errors) = 1 /\ errors[1].kind = "InvalidCharacter" /\ errors[1].ch = "2"
    /\ tokens = <<TokenIdentifier(<<"n">>), EOF>>

\* the single-character tokens of the Token set, by their spelling
SingleCharacterTokens ==
    {<<"+", "Plus">>, <<"-", "Minus">>, <<"*", "Star">>, <<"/", "Slash">>,
     <<"%", "Percent">>, <<"^", "Caret">>, <<"&", "And">>, <<"|", "Or">>,
     <<"!", "Not">>, <<"~", "Tilde">>, <<"=", "Equal">>, <<";", "Semicolon">>,
     <<":", "Colon">>, <<",", "Comma">>, <<".", "Dot">>, <<"?", "Question">>,
     <<"@", "At">>, <<"(", "LParen">>, <<")", "RParen">>, <<"{", "LBrace">>,
     <<"}", "RBrace">>, <<"[", "LBracket">>, <<"]", "RBracket">>}

\* C39: every single-character punctuation or operator of the Token set,
\* standing alone in the source, yields its matching token and no error;
\* in particular '~' yields Tilde.
C39_SingleCharacterTokens ==
    \A sp \in SingleCharacterTokens :
        (mode = "done" /\ input = <<sp[1]>>) =>
            /\ errors = <<>>
            /\ tokens = <<Token(sp[2]), EOF>>
====
